---- MODULE Spec2Model ----
(***************************************************************************)
(* Export repositories of doccano (backend/api/views/download):            *)
(* BaseRepository.list() as a generator driven by its caller, over a       *)
(* store of examples, annotations and annotation relations.                *)
(***************************************************************************)
EXTENDS Integers, Sequences, FiniteSets

VARIABLES
    kind,             \* the repository class list() is called on
    collaborative,    \* project.collaborative_annotation
    export_approved,  \* the argument of list()
    approver,         \* Example.annotations_approved_by, per example id
    anns,             \* the annotation table label_per_user scans (rows in id order)
    rels,             \* the AnnotationRelations table (rows in id order)
    pc,               \* where the generator stands
    cursor,           \* number of documents whose loop body has been entered
    pending,          \* items of label_per_user.items() not yet yielded
    relmap,           \* annotation_relations_per_user of the current document
    out,              \* the Records handed to the caller, in order
    fetched,          \* ids of the examples whose annotations were read from the store
    relreads,         \* ids of the examples for which the relation table was read
    error             \* the exception list() raised, "" when none

store == <<kind, collaborative, export_approved, approver, anns, rels>>
vars == <<kind, collaborative, export_approved, approver, anns, rels,
          pc, cursor, pending, relmap, out, fetched, relreads, error>>

----------------------------------------------------------------------------
(* Bounds of the store.                                                    *)

\* documents of the exported project
NumDocs == 2
\* annotation rows of the store, list() called with its default argument
MaxAnn == 3
\* annotation rows of the store, list() called with either export_approved
MaxAnnApproved == 2
\* span rows plus relation rows of the store
MaxRows == 4

Users == {"alice", "bob"}
Labels == {"PER", "ORG"}
RelTypes == {"works_for"}

ThisProject == "P"
OtherProject == "Q"

FileKinds == {"FileRepository", "Speech2TextRepository"}
TextKinds == {"TextClassificationRepository", "SequenceLabelingRepository",
              "Seq2seqRepository"}
Kinds == FileKinds \cup TextKinds

\* Examples 1..NumDocs belong to the exported project, example NumDocs+1 to another.
ExampleIds == 1..(NumDocs + 1)
ProjectOf(d) == IF d <= NumDocs THEN ThisProject ELSE OtherProject
TextOf(d) == <<"text", d>>
FilenameOf(d) == <<"media", "upload", <<"file", d>>>>
MetaOf(d) == {<<"source", d>>}
NoApprover == "None"
Approvers == {NoApprover, "admin"}

AnnRows(D) == [example : D, user : Users, text : Labels]
RelRows(n) == [annotation_id_1 : 1..(n + 1), annotation_id_2 : 1..(n + 1),
               user : Users, type : RelTypes,
               project : {ThisProject, OtherProject}]

SeqsUpTo(S, n) == UNION {[1..k -> S] : k \in 0..n}

----------------------------------------------------------------------------
(* Dictionaries in insertion order: sequences of <<key, value>> pairs.     *)

Keys(d) == {d[i][1] : i \in 1..Len(d)}

\* defaultdict(list).__getitem__ : a missing key reads as the empty list
Get(d, k) ==
    IF k \in Keys(d)
    THEN d[CHOOSE i \in 1..Len(d) : d[i][1] = k][2]
    ELSE <<>>

\* the bucket assigned instead of appended to: d[k] = [x]
AppendOverwrite(d, k, x) ==
    IF k \in Keys(d)
    THEN [i \in 1..Len(d) |-> IF d[i][1] = k THEN <<k, <<x>>>> ELSE d[i]]
    ELSE Append(d, <<k, <<x>>>>)

\* defaultdict(list)[k].append(x)
AppendTo(d, k, x) ==
    IF k \in Keys(d)
    THEN [i \in 1..Len(d) |-> IF d[i][1] = k THEN <<k, Append(d[i][2], x)>> ELSE d[i]]
    ELSE Append(d, <<k, <<x>>>>)

RECURSIVE ChainReversed(_)
\* the values chained last-to-first
ChainReversed(d) == IF d = <<>> THEN <<>> ELSE ChainReversed(Tail(d)) \o d[1][2]

RECURSIVE Chain(_)
\* itertools.chain(*values)
Chain(d) == IF d = <<>> THEN <<>> ELSE d[1][2] \o Chain(Tail(d))

----------------------------------------------------------------------------
(* The store as the repositories read it.                                  *)

\* Span.start_offset and Span.end_offset of the span with id i: spans are laid
\* out one after the other in id order.
StartOffset(i) == 5 * i
EndOffset(i) == 5 * i + 3

\* Span.objects.get(id=i) finds a row
Resolves(i) == i \in 1..Len(anns)

\* FileRepository.list: project.examples.all(); TextRepository.docs:
\* Example.objects.filter(project=self.project)
ProjectExamples ==
    SelectSeq([i \in 1..(NumDocs + 1) |-> i], LAMBDA d : ProjectOf(d) = ThisProject)

\* the exclude() left out
docs_unfiltered == ProjectExamples

\* examples.exclude(annotations_approved_by=None) when export_approved
docs ==
    IF export_approved
    THEN SelectSeq(ProjectExamples, LAMBDA d : approver[d] # NoApprover)
    ELSE ProjectExamples

\* the element label_per_user appends for annotation row i
LabelValue(i) ==
    IF kind = "SequenceLabelingRepository"
    THEN <<StartOffset(i), EndOffset(i), anns[i].text>>
    ELSE anns[i].text

RECURSIVE LabelFold(_, _, _)
LabelFold(d, i, acc) ==
    IF i > Len(anns) THEN acc
    ELSE LabelFold(d, i + 1,
                   IF anns[i].example = d
                   THEN AppendTo(acc, anns[i].user, LabelValue(i))
                   ELSE acc)

\* label_per_user(doc): the document's annotations grouped by username
label_per_user(d) == LabelFold(d, 1, <<>>)

\* reduce_user(label_per_user)
reduce_user(d) == << <<"all", Chain(d)>> >>

\* span_1 read where span_2 is meant
RelationTupleSameSpan(a) ==
    <<StartOffset(a.annotation_id_1), anns[a.annotation_id_1].text,
      StartOffset(a.annotation_id_1), anns[a.annotation_id_1].text,
      a.type>>

\* the 5-tuple of relation row a, both spans resolving
RelationTuple(a) ==
    <<StartOffset(a.annotation_id_1), anns[a.annotation_id_1].text,
      StartOffset(a.annotation_id_2), anns[a.annotation_id_2].text,
      a.type>>

\* the rows AnnotationRelations.objects.all() returns
RelationRows == rels

RECURSIVE RelationFoldSkip(_, _, _)
\* a relation whose span does not resolve is dropped
RelationFoldSkip(rows, i, acc) ==
    IF i > Len(rows) THEN [error |-> "", map |-> acc]
    ELSE IF ~(Resolves(rows[i].annotation_id_1) /\ Resolves(rows[i].annotation_id_2))
         THEN RelationFoldSkip(rows, i + 1, acc)
         ELSE RelationFoldSkip(rows, i + 1,
                               AppendTo(acc, rows[i].user, RelationTuple(rows[i])))

RECURSIVE RelationFold(_, _, _)
RelationFold(rows, i, acc) ==
    IF i > Len(rows) THEN [error |-> "", map |-> acc]
    ELSE IF ~(Resolves(rows[i].annotation_id_1) /\ Resolves(rows[i].annotation_id_2))
         THEN [error |-> "DoesNotExist", map |-> <<>>]
         ELSE RelationFold(rows, i + 1,
                           AppendTo(acc, rows[i].user, RelationTuple(rows[i])))

\* SequenceLabelingRepository.annotation_relations_per_user()
annotation_relations_per_user == RelationFold(RelationRows, 1, <<>>)

\* self.annotation_relations_per_user() as TextRepository.list calls it: only
\* SequenceLabelingRepository defines the method
CallRelations ==
    IF kind = "SequenceLabelingRepository"
    THEN annotation_relations_per_user
    ELSE [error |-> "AttributeError", map |-> <<>>]

\* the body of the document loop up to the first yield
Aggregate(d) ==
    LET lpu == label_per_user(d)
        rel == IF kind \in TextKinds THEN CallRelations ELSE [error |-> "", map |-> <<>>]
    IN  [error |-> rel.error,
         labels |-> IF collaborative THEN reduce_user(lpu) ELSE lpu,
         relations |-> IF collaborative /\ kind \in TextKinds
                       THEN reduce_user(rel.map) ELSE rel.map]

\* example.filename with its directories stripped
Basename(path) == path[Len(path)]

DataOf(d) == IF kind \in FileKinds THEN Basename(FilenameOf(d)) ELSE TextOf(d)

\* Record(...) of the yield in the items loop
Record(d, item, relations) ==
    [id |-> d, data |-> DataOf(d), label |-> item[2], user |-> item[1],
     metadata |-> MetaOf(d),
     annotation_relations |-> IF kind \in TextKinds THEN Get(relations, item[1]) ELSE <<>>]

\* Record(...) of the fallback yield
UnknownRecord(d) ==
    [id |-> d, data |-> DataOf(d), label |-> <<>>, user |-> "unknown",
     metadata |-> {}, annotation_relations |-> <<>>]

\* len(label_per_user) == 0
NoLabel(labels) == Len(labels) = 0

\* what evaluating the queryset reads: prefetch_related loads the annotations of
\* every document of the queryset in one batch
Prefetched == IF kind \in TextKinds THEN {docs[i] : i \in 1..Len(docs)} ELSE {}

----------------------------------------------------------------------------
(* The generator, one action per way a next() call can end.                *)

InitRun ==
    /\ pc = "created"
    /\ cursor = 0
    /\ pending = <<>>
    /\ relmap = <<>>
    /\ out = <<>>
    /\ fetched = {}
    /\ relreads = {}
    /\ error = ""

\* list() with its default argument on a project without relations
Init ==
    /\ kind \in Kinds
    /\ collaborative \in BOOLEAN
    /\ export_approved = FALSE
    /\ approver = [d \in ExampleIds |-> NoApprover]
    /\ anns \in SeqsUpTo(AnnRows(1..NumDocs), MaxAnn)
    /\ rels = <<>>
    /\ InitRun

\* the items loop left after its first yield
AtLoopHeadEarly == pc = "created" \/ pc = "yielded"

\* the generator stands before its first statement or at the end of the items loop
AtLoopHead == pc = "created" \/ (pc = "yielded" /\ pending = <<>>)

\* the loop body is entered for the next document
Enter(d) ==
    /\ cursor' = cursor + 1
    /\ fetched' = (IF pc = "created" THEN Prefetched ELSE fetched) \cup {d}
    /\ relreads' = IF kind = "SequenceLabelingRepository" THEN relreads \cup {d} ELSE relreads

\* next(): the items loop yields the next (user, label)
NextRecord ==
    /\ pc = "yielded"
    /\ pending # <<>>
    /\ out' = Append(out, Record(docs[cursor], Head(pending), relmap))
    /\ pending' = Tail(pending)
    /\ UNCHANGED <<store, pc, cursor, relmap, fetched, relreads, error>>

\* next(): the loop moves to the next document and yields its first Record
FirstRecord ==
    /\ AtLoopHead
    /\ cursor < Len(docs)
    /\ LET d == docs[cursor + 1]
           agg == Aggregate(d)
       IN  /\ agg.error = ""
           /\ ~NoLabel(agg.labels)
           /\ out' = Append(out, Record(d, Head(agg.labels), agg.relations))
           /\ pending' = Tail(agg.labels)
           /\ relmap' = agg.relations
           /\ Enter(d)
    /\ pc' = "yielded"
    /\ UNCHANGED <<store, error>>

\* next(): the loop moves to the next document, which has no label
Fallback ==
    /\ AtLoopHead
    /\ cursor < Len(docs)
    /\ LET d == docs[cursor + 1]
           agg == Aggregate(d)
       IN  /\ agg.error = ""
           /\ NoLabel(agg.labels)
           /\ out' = Append(out, UnknownRecord(d))
           /\ pending' = <<>>
           /\ relmap' = agg.relations
           /\ Enter(d)
    /\ pc' = "yielded"
    /\ UNCHANGED <<store, error>>

\* next(): the loop moves to the next document and an exception leaves list()
Raise ==
    /\ AtLoopHead
    /\ cursor < Len(docs)
    /\ LET d == docs[cursor + 1]
           agg == Aggregate(d)
       IN  /\ agg.error # ""
           /\ error' = agg.error
           /\ Enter(d)
    /\ pc' = "raised"
    /\ UNCHANGED <<store, pending, relmap, out>>

\* next(): no document is left, StopIteration
Stop ==
    /\ AtLoopHead
    /\ cursor = Len(docs)
    /\ pc' = "done"
    /\ fetched' = (IF pc = "created" THEN Prefetched ELSE fetched)
    /\ UNCHANGED <<store, cursor, pending, relmap, out, relreads, error>>

\* the caller stops requesting items
Close ==
    /\ pc \in {"created", "yielded"}
    /\ pc' = "closed"
    /\ UNCHANGED <<store, cursor, pending, relmap, out, fetched, relreads, error>>

Next == NextRecord \/ FirstRecord \/ Fallback \/ Raise \/ Stop \/ Close

Spec == Init /\ [][Next]_vars

\* list(export_approved) over projects whose documents are approved or not
InitApproved ==
    /\ kind \in Kinds
    /\ collaborative \in BOOLEAN
    /\ export_approved \in BOOLEAN
    /\ approver \in {f \in [ExampleIds -> Approvers] : f[NumDocs + 1] = "admin"}
    /\ anns \in SeqsUpTo(AnnRows(1..NumDocs), MaxAnnApproved)
    /\ rels = <<>>
    /\ InitRun

SpecApproved == InitApproved /\ [][Next]_vars

\* the label of span i in the stores of InitRel
SpanLabel(i) == IF i % 2 = 1 THEN "PER" ELSE "ORG"

\* a relation links two different spans of one document of its project; either
\* reference may dangle
WellFormed(spans, a) ==
    LET ends == {a.annotation_id_1, a.annotation_id_2} \cap (1..Len(spans))
    IN  /\ a.annotation_id_1 # a.annotation_id_2
        /\ \A i \in ends : ProjectOf(spans[i].example) = a.project
        /\ \A i, j \in ends : spans[i].example = spans[j].example

\* SequenceLabelingRepository.list() over stores that hold the spans and the
\* relations of two projects
InitRel ==
    /\ kind = "SequenceLabelingRepository"
    /\ collaborative \in BOOLEAN
    /\ export_approved = FALSE
    /\ approver = [d \in ExampleIds |-> NoApprover]
    /\ \E s \in SeqsUpTo([example : ExampleIds, user : Users], MaxRows) :
          anns = [i \in 1..Len(s) |->
                    [example |-> s[i].example, user |-> s[i].user, text |-> SpanLabel(i)]]
    /\ rels \in SeqsUpTo({a \in RelRows(Len(anns)) : WellFormed(anns, a)},
                         MaxRows - Len(anns))
    /\ InitRun

SpecRel == InitRel /\ [][Next]_vars

----------------------------------------------------------------------------
(* What the export is checked against: the store, read directly.           *)

Ids == [i \in 1..Len(anns) |-> i]

\* ids of the annotations of document d by user u, in retrieval order
AnnIdsOf(d, u) == SelectSeq(Ids, LAMBDA i : anns[i].example = d /\ anns[i].user = u)

\* ids of the annotations of document d, in retrieval order
AnnIdsOfDoc(d) == SelectSeq(Ids, LAMBDA i : anns[i].example = d)

Annotators(d) == {anns[AnnIdsOfDoc(d)[j]].user : j \in 1..Len(AnnIdsOfDoc(d))}

\* the label value of annotation i in the shape of the repository
ValueOf(i) ==
    IF kind = "SequenceLabelingRepository"
    THEN <<StartOffset(i), EndOffset(i), anns[i].text>>
    ELSE anns[i].text

\* the label values of user u on document d, in retrieval order
LabelsOf(d, u) == [j \in 1..Len(AnnIdsOf(d, u)) |-> ValueOf(AnnIdsOf(d, u)[j])]

\* the label values of document d, in retrieval order
LabelsOfDoc(d) == [j \in 1..Len(AnnIdsOfDoc(d)) |-> ValueOf(AnnIdsOfDoc(d)[j])]

RECURSIVE Appear(_, _)
\* the users of a sequence of annotation ids, each at its first appearance
Appear(ids, acc) ==
    IF ids = <<>> THEN acc
    ELSE Appear(Tail(ids),
                IF \E k \in 1..Len(acc) : acc[k] = anns[Head(ids)].user
                THEN acc ELSE Append(acc, anns[Head(ids)].user))

FirstAppearance(d) == Appear(AnnIdsOfDoc(d), <<>>)

RECURSIVE Pool(_, _)
Pool(d, us) == IF us = <<>> THEN <<>> ELSE LabelsOf(d, Head(us)) \o Pool(d, Tail(us))

\* every annotator's labels of document d, annotator after annotator
Pooled(d) == Pool(d, FirstAppearance(d))

\* the Records handed to the caller for document d
RecordsFor(d) == SelectSeq(out, LAMBDA r : r.id = d)

\* the loop body of document d has run to its end
Exported(d) ==
    \E j \in 1..Len(docs) :
        /\ docs[j] = d
        /\ \/ j < cursor
           \/ j = cursor /\ pending = <<>> /\ pc # "raised"

Dangling(a) == ~(Resolves(a.annotation_id_1) /\ Resolves(a.annotation_id_2))

\* the tuple a stored relation stands for
TupleOf(a) ==
    IF Dangling(a) THEN <<"unresolved">>
    ELSE <<StartOffset(a.annotation_id_1), anns[a.annotation_id_1].text,
           StartOffset(a.annotation_id_2), anns[a.annotation_id_2].text, a.type>>

\* the Records of document d when nothing filters the documents
FullRecords(d) ==
    LET agg == Aggregate(d)
    IN  IF NoLabel(agg.labels) THEN <<UnknownRecord(d)>>
        ELSE [i \in 1..Len(agg.labels) |-> Record(d, agg.labels[i], agg.relations)]

Entered == {docs[j] : j \in 1..cursor}

----------------------------------------------------------------------------
(* The claims.                                                             *)

\* C1: in a non-collaborative project, SequenceLabelingRepository.list and
\* FileRepository.list (Speech2TextRepository included) yield, for every exported
\* document with N >= 1 annotators, exactly N Records and no "unknown" Record: one
\* per annotator, with exactly that annotator's label values in retrieval order.
C1_OneRecordPerAnnotator ==
    (~collaborative /\ kind \in FileKinds \cup {"SequenceLabelingRepository"}) =>
        \A d \in ExampleIds :
            (Exported(d) /\ Annotators(d) # {}) =>
                LET rs == RecordsFor(d)
                IN  /\ Len(rs) = Cardinality(Annotators(d))
                    /\ \A i \in 1..Len(rs) : rs[i].user # "unknown"
                    /\ \A u \in Annotators(d) :
                          \E i \in 1..Len(rs) :
                              rs[i].user = u /\ rs[i].label = LabelsOf(d, u)

C1_Witness ==
    /\ ~collaborative
    /\ kind = "SequenceLabelingRepository"
    /\ pc = "done"
    /\ \E d \in ExampleIds :
          /\ Exported(d)
          /\ Cardinality(Annotators(d)) = 2
          /\ \E u \in Users : Len(LabelsOf(d, u)) = 2

\* C2: a document with zero annotations yields exactly one Record, with user
\* "unknown", label [] and metadata {}, whether the project is collaborative or
\* not, and a document with an annotation never yields the fallback.
C2_UnknownForUnannotated ==
    \A d \in ExampleIds :
        Exported(d) =>
            LET rs == RecordsFor(d)
            IN  /\ Annotators(d) = {} =>
                      /\ Len(rs) = 1
                      /\ rs[1].user = "unknown"
                      /\ rs[1].label = <<>>
                      /\ rs[1].metadata = {}
                /\ Annotators(d) # {} =>
                      \A i \in 1..Len(rs) : rs[i].user # "unknown"

C4_NoRelationStepForPlainText ==
    kind \in {"TextClassificationRepository", "Seq2seqRepository"} =>
        /\ pc # "raised"
        /\ \A k \in 1..Len(out) : out[k].annotation_relations = <<>>

\* C5: in SequenceLabelingRepository.list on a non-collaborative project, every
\* Record of user u carries the tuple of every stored relation u owns, and the
\* Record of an annotator who owns no relation has no annotation_relations.
C5_OwnRelationsInRecord ==
    (~collaborative /\ kind = "SequenceLabelingRepository") =>
        \A k \in 1..Len(out) :
            out[k].user # "unknown" =>
                LET own == {i \in 1..Len(rels) : rels[i].user = out[k].user}
                    got == out[k].annotation_relations
                IN  /\ \A i \in own : \E j \in 1..Len(got) : got[j] = TupleOf(rels[i])
                    /\ own = {} => got = <<>>

C5_Witness ==
    /\ ~collaborative
    /\ kind = "SequenceLabelingRepository"
    /\ \E k, l \in 1..Len(out) :
          /\ out[k].user \in Users
          /\ \E i \in 1..Len(rels) :
                /\ rels[i].user = out[k].user
                /\ rels[i].annotation_id_1 # rels[i].annotation_id_2
                /\ out[k].annotation_relations = <<TupleOf(rels[i])>>
          /\ out[l].user \in Users
          /\ out[l].annotation_relations = <<>>

\* C6: every tuple in the annotation_relations of a Record of document d stands
\* for a relation whose two spans belong to d.
C6_RelationsOfOwnDocument ==
    \A k \in 1..Len(out) :
        \A j \in 1..Len(out[k].annotation_relations) :
            \E i \in 1..Len(rels) :
                /\ ~Dangling(rels[i])
                /\ anns[rels[i].annotation_id_1].example = out[k].id
                /\ anns[rels[i].annotation_id_2].example = out[k].id
                /\ TupleOf(rels[i]) = out[k].annotation_relations[j]

\* C7: when a stored relation references a span that does not resolve,
\* SequenceLabelingRepository.list raises once it reaches a document; nothing is
\* yielded for the document being processed, and what was yielded before belongs
\* to earlier documents, whose Records are all there.
C7_DanglingSpanFailsFast ==
    (kind = "SequenceLabelingRepository" /\ \E i \in 1..Len(rels) : Dangling(rels[i])) =>
        /\ cursor > 0 => (pc = "raised" /\ error = "DoesNotExist")
        /\ pc = "raised" =>
              /\ RecordsFor(docs[cursor]) = <<>>
              /\ \A k \in 1..Len(out) :
                    \E j \in 1..(cursor - 1) :
                        docs[j] = out[k].id /\ RecordsFor(docs[j]) = FullRecords(docs[j])

C7_Witness ==
    /\ kind = "SequenceLabelingRepository"
    /\ pc = "raised"
    /\ error = "DoesNotExist"
    /\ \E i \in 1..Len(rels) : Dangling(rels[i])
    /\ \E i \in 1..Len(rels) : ~Dangling(rels[i])
    /\ Annotators(docs[cursor]) # {}

\* C8: with export_approved no Record belongs to a document without approver,
\* and a completed list() holds, for every document with an approver, exactly the
\* Records the unfiltered list() yields for it; without export_approved every
\* document of the project has at least one Record.
C8_ApprovedFilter ==
    /\ export_approved => \A k \in 1..Len(out) : approver[out[k].id] # NoApprover
    /\ pc = "done" =>
          \A d \in 1..NumDocs :
              /\ (export_approved /\ approver[d] # NoApprover) =>
                    RecordsFor(d) = FullRecords(d)
              /\ ~export_approved =>
                    (RecordsFor(d) = FullRecords(d) /\ RecordsFor(d) # <<>>)

C8_Witness ==
    /\ export_approved
    /\ pc = "done"
    /\ \E d, e \in 1..NumDocs :
          /\ approver[d] = NoApprover
          /\ Annotators(d) # {}
          /\ approver[e] # NoApprover
          /\ RecordsFor(e) # <<>>

\* what C9 says of the state: the Records of the documents before the current one
\* have all been handed over, and nothing was read for a document not yet entered
C9_Handed ==
    /\ \A j \in 1..Len(docs) : j < cursor => RecordsFor(docs[j]) = FullRecords(docs[j])
    /\ \A k \in 1..Len(out) : out[k].id \in Entered
    /\ relreads \subseteq Entered

\* what C9 says of a step: a request hands over at most one Record and enters at
\* most one document, and nothing happens once the caller has stopped
C9_Step ==
    /\ Len(out') <= Len(out) + 1
    /\ cursor' <= cursor + 1
    /\ pc = "closed" => UNCHANGED <<out, cursor, fetched, relreads>>

\* C9: Records are produced lazily in document order: all Records of
\* document k are handed over before the annotations and relations of document
\* k+1 are fetched or aggregated, and once the caller stops nothing more is
\* processed or constructed.
C9_LazyFetch ==
    /\ [](error = "" => (C9_Handed /\ fetched \subseteq Entered))
    /\ [][C9_Step]_vars

\* C9, the fetch of the annotations left to the file repositories: Records are
\* produced lazily in document order, all Records of document k handed over before
\* document k+1 is aggregated or its relations read; only FileRepository and
\* Speech2TextRepository read the annotations document by document, the
\* TextRepository subclasses prefetch them for the whole queryset on the first
\* request; once the caller stops nothing more is processed or constructed.
C9_LazyAggregation ==
    /\ [](C9_Handed /\ (kind \in FileKinds => fetched \subseteq Entered))
    /\ [][C9_Step]_vars

C9_Witness ==
    /\ pc = "closed"
    /\ kind = "SequenceLabelingRepository"
    /\ Len(docs) = 2
    /\ cursor = 1
    /\ Len(out) = 1
    /\ Len(FullRecords(docs[1])) = 2
    /\ fetched = {docs[1], docs[2]}
    /\ relreads = {docs[1]}

\* C10: no Record carries a tuple of a relation of another project, and a
\* relation of another project that does not resolve does not fail the export.
C10_OnlyOwnProjectRelations ==
    /\ \A k \in 1..Len(out) :
          \A j \in 1..Len(out[k].annotation_relations) :
              \E i \in 1..Len(rels) :
                  /\ rels[i].project = ThisProject
                  /\ TupleOf(rels[i]) = out[k].annotation_relations[j]
    /\ (\A i \in 1..Len(rels) : rels[i].project = ThisProject => ~Dangling(rels[i]))
          => pc # "raised"

====
